---- MODULE Spec2Model ----
(***************************************************************************)
(* Model of the task dashboard component src/src/App.svelte: the task      *)
(* store, the derived visible list and the modal-driven add / edit /       *)
(* delete handlers, including the two simulated-latency timers.            *)
(*                                                                         *)
(* A string is a record [head, fill]: the characters of head (a sequence   *)
(* of one-character strings) followed by fill copies of the character ".", *)
(* which never occurs in a head.  Length, trim, toLowerCase and includes   *)
(* are computed on this representation.  The seed texts are abbreviated to *)
(* their first word followed by filler up to the length of the source      *)
(* text, so every length the code compares is the real one.                *)
(***************************************************************************)
EXTENDS Integers, Sequences, FiniteSets, TLC

VARIABLES
    tasks,                \* writable<Task[]>                    (line 49)
    searchTerm,           \* writable('')                        (line 50)
    filterStatus,         \* writable<TaskStatus | 'All'>        (line 51)
    isContentLoading,     \* line 53
    isEditModalOpen,      \* line 56
    isDeleteModalOpen,    \* line 57
    isAddModalOpen,       \* line 58
    isLoading,            \* line 59
    currentTask,          \* line 60, NoTask stands for null
    newTaskTitle,         \* line 61
    newTaskDescription,   \* line 62
    newTaskStatus,        \* line 63
    confirmMessage,       \* line 64
    pendingTaskToDelete,  \* line 65, NoTask stands for null
    loadTimer,            \* the setTimeout of onMount: "pending" or "fired"
    pendingAdds,          \* addTask calls suspended at their await
    issued,               \* number of crypto.randomUUID() results so far
    events,               \* number of user events so far (bounded)
    inputs,               \* number of those that typed or picked a value (bounded)
    lastOp,               \* history: the handler that ran last, or the submit
                          \* the template blocked before any handler ran
    submitted,            \* history: the draft as it was when addTask accepted it
    cancelled             \* history: the add modal was cancelled while a submit was pending

vars == <<tasks, searchTerm, filterStatus, isContentLoading, isEditModalOpen,
          isDeleteModalOpen, isAddModalOpen, isLoading, currentTask,
          newTaskTitle, newTaskDescription, newTaskStatus, confirmMessage,
          pendingTaskToDelete, loadTimer, pendingAdds, issued, events,
          inputs, lastOp, submitted, cancelled>>

store == <<tasks>>
draft == <<newTaskTitle, newTaskDescription, newTaskStatus>>
modals == <<isEditModalOpen, isDeleteModalOpen, isAddModalOpen>>
deleteState == <<confirmMessage, pendingTaskToDelete>>
filters == <<searchTerm, filterStatus>>
history == <<submitted, cancelled>>

----------------------------------------------------------------------------
(* Bounds of the exploration. *)

\* accepted add submissions per behaviour
MaxAdds == 1

\* user events (clicks, submits, inputs) per behaviour; timers are not counted
MaxEvents == 4

\* user events that type in a field or pick a status or a filter, per behaviour
MaxInputs == 2

----------------------------------------------------------------------------
(* Program constants and types. *)

MAX_CHARACTERS == 500

TaskStatus == {"Pending", "In-Progress", "Completed"}

FilterValues == TaskStatus \cup {"All"}

\* the results of crypto.randomUUID(), in the order they are produced:
\* version-4 UUIDs, pairwise different and different from '1'..'4'
UUIDS == <<"uuid-1", "uuid-2", "uuid-3", "uuid-4">>

\* the values new Date().toLocaleDateString() can take while the page lives
Today == {"today", "tomorrow"}

\* the string made of the characters of head
S(head) == [head |-> head, fill |-> 0]

\* a text of n characters that starts with head
Text(head, n) == [head |-> head, fill |-> n - Len(head)]

\* String.prototype.length
Length(s) == Len(s.head) + s.fill

NoTask == [id |-> "null", title |-> S(<<>>), description |-> S(<<>>),
           status |-> "Pending", createdAt |-> "null"]

initialTasks ==
    << [id |-> "1", title |-> Text(<<"D", "e", "s", "i", "g", "n">>, 70),
        description |-> Text(<<"C", "r", "e", "a", "t", "e">>, 491),
        status |-> "In-Progress", createdAt |-> "today-1"],
       [id |-> "2", title |-> Text(<<"I", "m", "p", "l", "e", "m", "e", "n", "t">>, 52),
        description |-> Text(<<"D", "e", "v", "e", "l", "o", "p">>, 417),
        status |-> "Completed", createdAt |-> "today-2"],
       [id |-> "3", title |-> Text(<<"S", "e", "t">>, 58),
        description |-> Text(<<"I", "n", "i", "t", "i", "a", "l", "i", "z", "e">>, 332),
        status |-> "Completed", createdAt |-> "today-3"],
       [id |-> "4", title |-> Text(<<"A", "d", "d">>, 62),
        description |-> Text(<<"I", "m", "p", "l", "e", "m", "e", "n", "t">>, 357),
        status |-> "Pending", createdAt |-> "today"] >>

----------------------------------------------------------------------------
(* The values a user can type. *)

TitleInputs == { S(<<>>), S(<<" ">>), S(<<"S", "e">>) }

DescriptionInputs ==
    { S(<<"d", "E">>), Text(<<>>, MAX_CHARACTERS), Text(<<>>, MAX_CHARACTERS + 1) }

SearchInputs == { S(<<>>), S(<<"s", "E">>), S(<<"D", "e">>) }

----------------------------------------------------------------------------
(* String functions of the platform. *)

Upper == <<"A", "C", "D", "E", "I", "S">>
Lower == <<"a", "c", "d", "e", "i", "s">>

\* String.prototype.toLowerCase, one character
lowerChar(c) ==
    IF \E k \in 1..Len(Upper) : Upper[k] = c
    THEN Lower[CHOOSE k \in 1..Len(Upper) : Upper[k] = c]
    ELSE c

\* String.prototype.toLowerCase
toLowerCase(s) == [s EXCEPT !.head = [i \in 1..Len(s.head) |-> lowerChar(s.head[i])]]

\* the first n characters of s, as a sequence
chars(s, n) ==
    [i \in 1..(IF n < Length(s) THEN n ELSE Length(s)) |->
        IF i <= Len(s.head) THEN s.head[i] ELSE "."]

\* String.prototype.includes: an occurrence of t in s starts in the head of s
\* or at the first filler character, so Len(s.head) + Length(t) characters of s decide
includes(s, t) ==
    LET hay == chars(s, Len(s.head) + Length(t))
        needle == chars(t, Length(t))
    IN  \E i \in 0..(Len(hay) - Len(needle)) :
            \A j \in 1..Len(needle) : hay[i + j] = needle[j]

\* String.prototype.trim (the blank is the only white space of the model;
\* a string that ends in filler ends in a character that is not white space)
RECURSIVE trimStart(_)
trimStart(h) == IF h # <<>> /\ Head(h) = " " THEN trimStart(Tail(h)) ELSE h

RECURSIVE trimEnd(_)
trimEnd(h) ==
    IF h # <<>> /\ h[Len(h)] = " " THEN trimEnd(SubSeq(h, 1, Len(h) - 1)) ELSE h

trim(s) ==
    IF s.fill > 0
    THEN [s EXCEPT !.head = trimStart(s.head)]
    ELSE [s EXCEPT !.head = trimEnd(trimStart(s.head))]

----------------------------------------------------------------------------
(* The derived store filteredTasks. *)

\* filteredTasks with a search that does not fold the case of the term
filteredTasksCaseSensitive(ts, term, status) ==
    LET byStatus(task) == task.status = status
        statusStep == IF status = "All" THEN ts ELSE SelectSeq(ts, byStatus)
        bySearch(task) ==
            \/ includes(toLowerCase(task.title), term)
            \/ includes(toLowerCase(task.description), term)
    IN  IF Length(term) > 0 THEN SelectSeq(statusStep, bySearch) ELSE statusStep

\* a status step that compares with 'All' like with any other status
filteredByStatusLiteral(ts, status) ==
    LET byStatus(task) == task.status = status
    IN  SelectSeq(ts, byStatus)

\* the first step of the callback (lines 82-84)
filteredByStatus(ts, status) ==
    LET byStatus(task) == task.status = status
    IN  IF status = "All" THEN ts ELSE SelectSeq(ts, byStatus)

\* the second step of the callback (lines 86-91)
filteredBySearch(ts, term) ==
    LET bySearch(task) ==
            \/ includes(toLowerCase(task.title), toLowerCase(term))
            \/ includes(toLowerCase(task.description), toLowerCase(term))
    IN  IF Length(term) > 0 THEN SelectSeq(ts, bySearch) ELSE ts

\* the callback of derived([tasks, searchTerm, filterStatus], ...) (lines 79-93)
filteredTasks(ts, term, status) ==
    filteredBySearch(filteredByStatus(ts, status), term)

\* $filteredTasks: the list the page renders
visibleTasks == filteredTasks(tasks, searchTerm, filterStatus)

----------------------------------------------------------------------------
Init ==
    /\ tasks = <<>>
    /\ searchTerm = S(<<>>)
    /\ filterStatus = "All"
    /\ isContentLoading = TRUE
    /\ isEditModalOpen = FALSE
    /\ isDeleteModalOpen = FALSE
    /\ isAddModalOpen = FALSE
    /\ isLoading = FALSE
    /\ currentTask = NoTask
    /\ newTaskTitle = S(<<>>)
    /\ newTaskDescription = S(<<>>)
    /\ newTaskStatus = "Pending"
    /\ confirmMessage = <<>>
    /\ pendingTaskToDelete = NoTask
    /\ loadTimer = "pending"
    /\ pendingAdds = 0
    /\ issued = 0
    /\ events = 0
    /\ inputs = 0
    /\ lastOp = "init"
    /\ submitted = NoTask
    /\ cancelled = FALSE

\* a user event, counted against the bound
userEvent == events < MaxEvents /\ events' = events + 1

\* the callback of a timer that repeats (setInterval): it runs again after the load
onMountInterval ==
    /\ loadTimer' = "fired"
    /\ tasks' = initialTasks
    /\ isContentLoading' = FALSE
    /\ lastOp' = "onMountTimer"
    /\ UNCHANGED events
    /\ UNCHANGED <<filters, modals, isLoading, currentTask, draft, deleteState,
                   pendingAdds, issued, inputs, history>>

\* the callback of the setTimeout in onMount
onMountTimer ==
    /\ loadTimer = "pending"
    /\ loadTimer' = "fired"
    /\ tasks' = initialTasks
    /\ isContentLoading' = FALSE
    /\ lastOp' = "onMountTimer"
    /\ UNCHANGED events
    /\ UNCHANGED <<filters, modals, isLoading, currentTask, draft, deleteState,
                   pendingAdds, issued, inputs, history>>

\* bind:value={$searchTerm} (line 293)
setSearchTerm ==
    /\ ~isContentLoading
    /\ inputs < MaxInputs
    /\ \E term \in SearchInputs : searchTerm' = term
    /\ inputs' = inputs + 1
    /\ lastOp' = "setSearchTerm"
    /\ userEvent
    /\ UNCHANGED <<store, filterStatus, isContentLoading, modals, isLoading,
                   currentTask, draft, deleteState, loadTimer, pendingAdds,
                   issued, history>>

\* on:click of a filter button (line 323)
setFilterStatus ==
    /\ ~isContentLoading
    /\ inputs < MaxInputs
    /\ \E status \in FilterValues : filterStatus' = status
    /\ inputs' = inputs + 1
    /\ lastOp' = "setFilterStatus"
    /\ userEvent
    /\ UNCHANGED <<store, searchTerm, isContentLoading, modals, isLoading,
                   currentTask, draft, deleteState, loadTimer, pendingAdds,
                   issued, history>>

\* an "Add New Task" button that the loading skeleton renders as well
openAddModalWhileLoading ==
    /\ isAddModalOpen' = TRUE
    /\ lastOp' = "openAddModal"
    /\ userEvent
    /\ UNCHANGED <<store, filters, isContentLoading, isEditModalOpen,
                   isDeleteModalOpen, isLoading, currentTask, draft,
                   deleteState, loadTimer, pendingAdds, issued, inputs, history>>

\* on:click of "Add New Task" (line 299)
openAddModal ==
    /\ ~isContentLoading
    /\ isAddModalOpen' = TRUE
    /\ lastOp' = "openAddModal"
    /\ userEvent
    /\ UNCHANGED <<store, filters, isContentLoading, isEditModalOpen,
                   isDeleteModalOpen, isLoading, currentTask, draft,
                   deleteState, loadTimer, pendingAdds, issued, inputs, history>>

\* bind:value of the three fields of the add form (lines 401, 410, 422)
inputNewTaskTitle ==
    /\ isAddModalOpen
    /\ inputs < MaxInputs
    /\ \E title \in TitleInputs : newTaskTitle' = title
    /\ inputs' = inputs + 1
    /\ lastOp' = "inputNewTask"
    /\ userEvent
    /\ UNCHANGED <<store, filters, isContentLoading, modals, isLoading,
                   currentTask, newTaskDescription, newTaskStatus, deleteState,
                   loadTimer, pendingAdds, issued, history>>

inputNewTaskDescription ==
    /\ isAddModalOpen
    /\ inputs < MaxInputs
    /\ \E description \in DescriptionInputs : newTaskDescription' = description
    /\ inputs' = inputs + 1
    /\ lastOp' = "inputNewTask"
    /\ userEvent
    /\ UNCHANGED <<store, filters, isContentLoading, modals, isLoading,
                   currentTask, newTaskTitle, newTaskStatus, deleteState,
                   loadTimer, pendingAdds, issued, history>>

inputNewTaskStatus ==
    /\ isAddModalOpen
    /\ inputs < MaxInputs
    /\ \E status \in TaskStatus : newTaskStatus' = status
    /\ inputs' = inputs + 1
    /\ lastOp' = "inputNewTask"
    /\ userEvent
    /\ UNCHANGED <<store, filters, isContentLoading, modals, isLoading,
                   currentTask, newTaskTitle, newTaskDescription, deleteState,
                   loadTimer, pendingAdds, issued, history>>

\* a disabled attribute that does not look at isLoading
addSubmitDisabledWhenLong ==
    Length(newTaskDescription) > MAX_CHARACTERS

\* the disabled attribute of the add form's submit button (line 441)
addSubmitDisabled ==
    isLoading \/ Length(newTaskDescription) > MAX_CHARACTERS

\* the required attribute of a title input (lines 402, 474): the browser
\* does not dispatch submit while the field is empty
requiredMissing(title) == Length(title) = 0

\* an early return whose bound excludes MAX_CHARACTERS itself
addTaskRejectsAtBound(title, description) ==
    Length(trim(title)) = 0 \/ Length(description) >= MAX_CHARACTERS

\* an early return that does not trim the title
addTaskRejectsUntrimmed(title, description) ==
    Length(title) = 0 \/ Length(description) > MAX_CHARACTERS

\* the early return of addTask (line 115)
addTaskRejects(title, description) ==
    Length(trim(title)) = 0 \/ Length(description) > MAX_CHARACTERS

\* the add form is submitted: on:submit|preventDefault={addTask}, up to the await
addTask ==
    /\ isAddModalOpen
    /\ issued < MaxAdds
    /\ lastOp' = IF addSubmitDisabled \/ requiredMissing(newTaskTitle)
                 THEN "addSubmitBlocked" ELSE "addTask"
    /\ userEvent
    /\ IF \/ addSubmitDisabled
          \/ requiredMissing(newTaskTitle)
          \/ addTaskRejects(newTaskTitle, newTaskDescription)
       THEN UNCHANGED <<isLoading, pendingAdds, history>>
       ELSE /\ isLoading' = TRUE
            /\ pendingAdds' = pendingAdds + 1
            /\ submitted' = [NoTask EXCEPT !.id = "draft",
                                           !.title = newTaskTitle,
                                           !.description = newTaskDescription,
                                           !.status = newTaskStatus]
            /\ cancelled' = FALSE
    /\ UNCHANGED <<store, filters, isContentLoading, modals, currentTask, draft,
                   deleteState, loadTimer, issued, inputs>>

\* an id generator that returns the id of a seed task
randomUUIDSeedId(n) == "1"

\* crypto.randomUUID(): the n-th result
randomUUID(n) == UUIDS[n]

\* the task addTask builds after its await (lines 120-126)
newTask(uuid, date) ==
    [id |-> uuid, title |-> newTaskTitle, description |-> newTaskDescription,
     status |-> newTaskStatus, createdAt |-> date]

\* a continuation that validates the draft again after the await and returns
\* early on a rejected draft, before the flag is reset and the modal closed
addTaskResumeRevalidates ==
    /\ pendingAdds > 0
    /\ pendingAdds' = pendingAdds - 1
    /\ lastOp' = "addTaskResume"
    /\ UNCHANGED events
    /\ IF addTaskRejects(newTaskTitle, newTaskDescription)
       THEN UNCHANGED <<tasks, issued, isLoading, isAddModalOpen, draft, history>>
       ELSE /\ \E date \in Today :
                   tasks' = Append(tasks, newTask(randomUUID(issued + 1), date))
            /\ issued' = issued + 1
            /\ isLoading' = FALSE
            /\ isAddModalOpen' = FALSE
            /\ newTaskTitle' = S(<<>>)
            /\ newTaskDescription' = S(<<>>)
            /\ newTaskStatus' = "Pending"
            /\ submitted' = NoTask
            /\ cancelled' = FALSE
    /\ UNCHANGED <<filters, isContentLoading, isEditModalOpen, isDeleteModalOpen,
                   currentTask, deleteState, loadTimer, inputs>>

\* addTask after the await: the 1500 ms timer has fired (lines 120-131)
addTaskResume ==
    /\ pendingAdds > 0
    /\ \E date \in Today :
           tasks' = Append(tasks, newTask(randomUUID(issued + 1), date))
    /\ issued' = issued + 1
    /\ pendingAdds' = pendingAdds - 1
    /\ isLoading' = FALSE
    /\ isAddModalOpen' = FALSE
    \* resetNewTaskForm (lines 134-138)
    /\ newTaskTitle' = S(<<>>)
    /\ newTaskDescription' = S(<<>>)
    /\ newTaskStatus' = "Pending"
    /\ lastOp' = "addTaskResume"
    /\ UNCHANGED events
    /\ submitted' = NoTask
    /\ cancelled' = FALSE
    /\ UNCHANGED <<filters, isContentLoading, isEditModalOpen, isDeleteModalOpen,
                   currentTask, deleteState, loadTimer, inputs>>

\* a Cancel that closes the add modal without resetNewTaskForm
handleCancelAddTaskKeepsDraft ==
    /\ isAddModalOpen
    /\ isAddModalOpen' = FALSE
    /\ lastOp' = "handleCancelAddTask"
    /\ userEvent
    /\ cancelled' = (cancelled \/ pendingAdds > 0)
    /\ UNCHANGED <<store, filters, isContentLoading, isEditModalOpen,
                   isDeleteModalOpen, isLoading, currentTask, draft, deleteState,
                   loadTimer, pendingAdds, issued, inputs, submitted>>

\* on:click of Cancel in the add form (lines 140-143)
handleCancelAddTask ==
    /\ isAddModalOpen
    /\ newTaskTitle' = S(<<>>)
    /\ newTaskDescription' = S(<<>>)
    /\ newTaskStatus' = "Pending"
    /\ isAddModalOpen' = FALSE
    /\ lastOp' = "handleCancelAddTask"
    /\ userEvent
    /\ cancelled' = (cancelled \/ pendingAdds > 0)
    /\ UNCHANGED <<store, filters, isContentLoading, isEditModalOpen,
                   isDeleteModalOpen, isLoading, currentTask, deleteState,
                   loadTimer, pendingAdds, issued, inputs, submitted>>

\* on:click of Edit on a rendered task (lines 145-148, 361)
openEditModal ==
    /\ ~isContentLoading
    /\ \E i \in 1..Len(visibleTasks) : currentTask' = visibleTasks[i]
    /\ isEditModalOpen' = TRUE
    /\ lastOp' = "openEditModal"
    /\ userEvent
    /\ UNCHANGED <<store, filters, isContentLoading, isDeleteModalOpen,
                   isAddModalOpen, isLoading, draft, deleteState, loadTimer,
                   pendingAdds, issued, inputs, history>>

\* a draft that is the stored object itself: a write to it is a write to the record
storeAfterEditInputShared(currentTasks, draftTask, edited) ==
    [i \in 1..Len(currentTasks) |->
        IF currentTasks[i].id = draftTask.id THEN edited ELSE currentTasks[i]]

\* the collection after bind:value wrote a field of currentTask: the draft is
\* the copy { ...task } of line 146, an object of its own, and the write does
\* not reach the array the store holds
storeAfterEditInput(currentTasks, draftTask, edited) == currentTasks

\* bind:value of the three fields of the edit form (lines 473, 482, 494)
inputEditTitle ==
    /\ isEditModalOpen /\ currentTask # NoTask
    /\ inputs < MaxInputs
    /\ \E title \in TitleInputs :
           /\ currentTask' = [currentTask EXCEPT !.title = title]
           /\ tasks' = storeAfterEditInput(tasks, currentTask, currentTask')
    /\ inputs' = inputs + 1
    /\ lastOp' = "inputEdit"
    /\ userEvent
    /\ UNCHANGED <<filters, isContentLoading, modals, isLoading, draft,
                   deleteState, loadTimer, pendingAdds, issued, history>>

inputEditDescription ==
    /\ isEditModalOpen /\ currentTask # NoTask
    /\ inputs < MaxInputs
    /\ \E description \in DescriptionInputs :
           /\ currentTask' = [currentTask EXCEPT !.description = description]
           /\ tasks' = storeAfterEditInput(tasks, currentTask, currentTask')
    /\ inputs' = inputs + 1
    /\ lastOp' = "inputEdit"
    /\ userEvent
    /\ UNCHANGED <<filters, isContentLoading, modals, isLoading, draft,
                   deleteState, loadTimer, pendingAdds, issued, history>>

inputEditStatus ==
    /\ isEditModalOpen /\ currentTask # NoTask
    /\ inputs < MaxInputs
    /\ \E status \in TaskStatus :
           /\ currentTask' = [currentTask EXCEPT !.status = status]
           /\ tasks' = storeAfterEditInput(tasks, currentTask, currentTask')
    /\ inputs' = inputs + 1
    /\ lastOp' = "inputEdit"
    /\ userEvent
    /\ UNCHANGED <<filters, isContentLoading, modals, isLoading, draft,
                   deleteState, loadTimer, pendingAdds, issued, history>>

\* the disabled attribute of the edit form's submit button (line 513)
editSubmitDisabled == Length(currentTask.description) > MAX_CHARACTERS

\* the condition of saveEditedTask (line 151)
saveAccepts(draftTask) ==
    draftTask # NoTask /\ Length(draftTask.description) <= MAX_CHARACTERS

\* an update that takes the record out and puts the draft at the end
replaceTaskMoveToEnd(currentTasks, draftTask) ==
    LET others(task) == task.id # draftTask.id
    IN  IF \E i \in 1..Len(currentTasks) : currentTasks[i].id = draftTask.id
        THEN Append(SelectSeq(currentTasks, others), draftTask)
        ELSE currentTasks

\* an update that appends the draft when no record has its id
replaceTaskOrAppend(currentTasks, draftTask) ==
    IF \E i \in 1..Len(currentTasks) : currentTasks[i].id = draftTask.id
    THEN [i \in 1..Len(currentTasks) |->
            IF currentTasks[i].id = draftTask.id THEN draftTask ELSE currentTasks[i]]
    ELSE Append(currentTasks, draftTask)

\* a map that puts the draft in every place
replaceTaskEverywhere(currentTasks, draftTask) ==
    [i \in 1..Len(currentTasks) |-> draftTask]

\* the tasks.update of saveEditedTask (lines 152-156)
replaceTask(currentTasks, draftTask) ==
    [i \in 1..Len(currentTasks) |->
        IF currentTasks[i].id = draftTask.id THEN draftTask ELSE currentTasks[i]]

\* a save with neither the disabled attribute nor the length test of line 151
saveEditedTaskUnchecked ==
    /\ isEditModalOpen /\ currentTask # NoTask
    /\ lastOp' = IF requiredMissing(currentTask.title)
                 THEN "editSubmitBlocked" ELSE "saveEditedTask"
    /\ userEvent
    /\ IF requiredMissing(currentTask.title)
       THEN UNCHANGED <<tasks, isEditModalOpen>>
       ELSE /\ tasks' = replaceTask(tasks, currentTask)
            /\ isEditModalOpen' = FALSE
    /\ UNCHANGED <<filters, isContentLoading, isDeleteModalOpen, isAddModalOpen,
                   isLoading, currentTask, draft, deleteState, loadTimer,
                   pendingAdds, issued, inputs, history>>

\* the edit form is submitted: on:submit|preventDefault={saveEditedTask}
saveEditedTask ==
    /\ isEditModalOpen /\ currentTask # NoTask
    /\ lastOp' = IF editSubmitDisabled \/ requiredMissing(currentTask.title)
                 THEN "editSubmitBlocked" ELSE "saveEditedTask"
    /\ userEvent
    /\ IF \/ editSubmitDisabled
          \/ requiredMissing(currentTask.title)
          \/ ~saveAccepts(currentTask)
       THEN UNCHANGED <<tasks, isEditModalOpen>>
       ELSE /\ tasks' = replaceTask(tasks, currentTask)
            /\ isEditModalOpen' = FALSE
    /\ UNCHANGED <<filters, isContentLoading, isDeleteModalOpen, isAddModalOpen,
                   isLoading, currentTask, draft, deleteState, loadTimer,
                   pendingAdds, issued, inputs, history>>

\* on:click of Cancel in the edit form (line 505)
cancelEdit ==
    /\ isEditModalOpen /\ currentTask # NoTask
    /\ isEditModalOpen' = FALSE
    /\ lastOp' = "cancelEdit"
    /\ userEvent
    /\ UNCHANGED <<store, filters, isContentLoading, isDeleteModalOpen,
                   isAddModalOpen, isLoading, currentTask, draft, deleteState,
                   loadTimer, pendingAdds, issued, inputs, history>>

\* the confirmation text of openDeleteModal (line 163)
confirmText(title) ==
    <<"Are you sure you want to delete the task titled \"", title, "\"?">>

\* on:click of Delete on a rendered task (lines 161-165, 368)
openDeleteModal ==
    /\ ~isContentLoading
    /\ \E i \in 1..Len(visibleTasks) :
           /\ pendingTaskToDelete' = visibleTasks[i]
           /\ confirmMessage' = confirmText(visibleTasks[i].title)
    /\ isDeleteModalOpen' = TRUE
    /\ lastOp' = "openDeleteModal"
    /\ userEvent
    /\ UNCHANGED <<store, filters, isContentLoading, isEditModalOpen,
                   isAddModalOpen, isLoading, currentTask, draft, loadTimer,
                   pendingAdds, issued, inputs, history>>

\* a filter that compares with the id of the edit draft instead of the target's
removeTaskOfEditDraft(currentTasks, target) ==
    LET keep(task) == task.id # currentTask.id
    IN  SelectSeq(currentTasks, keep)

\* a removal by position that takes the last task when no task has the id
removeTaskOrLast(currentTasks, target) ==
    LET keep(task) == task.id # target.id
    IN  IF \E i \in 1..Len(currentTasks) : currentTasks[i].id = target.id
        THEN SelectSeq(currentTasks, keep)
        ELSE SubSeq(currentTasks, 1, Len(currentTasks) - 1)

\* a filter that drops every task with the target's status
removeTaskByStatus(currentTasks, target) ==
    LET keep(task) == task.status # target.status
    IN  SelectSeq(currentTasks, keep)

\* the tasks.update of deleteTask (lines 169-171)
removeTask(currentTasks, target) ==
    LET keep(task) == task.id # target.id
    IN  SelectSeq(currentTasks, keep)

\* a confirm that closes the modal and clears the captured task, not the message
deleteTaskKeepsMessage ==
    /\ isDeleteModalOpen
    /\ IF pendingTaskToDelete # NoTask
       THEN tasks' = removeTask(tasks, pendingTaskToDelete)
       ELSE UNCHANGED tasks
    /\ isDeleteModalOpen' = FALSE
    /\ pendingTaskToDelete' = NoTask
    /\ lastOp' = "deleteTask"
    /\ userEvent
    /\ UNCHANGED <<filters, isContentLoading, isEditModalOpen, isAddModalOpen,
                   isLoading, currentTask, draft, loadTimer, pendingAdds,
                   issued, inputs, history, confirmMessage>>

\* on:click of Delete in the confirmation (lines 167-174), closeDeleteModal included
deleteTask ==
    /\ isDeleteModalOpen
    /\ IF pendingTaskToDelete # NoTask
       THEN tasks' = removeTask(tasks, pendingTaskToDelete)
       ELSE UNCHANGED tasks
    /\ isDeleteModalOpen' = FALSE
    /\ pendingTaskToDelete' = NoTask
    /\ confirmMessage' = <<>>
    /\ lastOp' = "deleteTask"
    /\ userEvent
    /\ UNCHANGED <<filters, isContentLoading, isEditModalOpen, isAddModalOpen,
                   isLoading, currentTask, draft, loadTimer, pendingAdds,
                   issued, inputs, history>>

\* a Cancel that closes the confirmation and keeps the captured task
closeDeleteModalKeepsTask ==
    /\ isDeleteModalOpen
    /\ isDeleteModalOpen' = FALSE
    /\ confirmMessage' = <<>>
    /\ lastOp' = "closeDeleteModal"
    /\ userEvent
    /\ UNCHANGED <<store, filters, isContentLoading, isEditModalOpen,
                   isAddModalOpen, isLoading, currentTask, draft, loadTimer,
                   pendingAdds, issued, inputs, history, pendingTaskToDelete>>

\* on:click of Cancel in the confirmation (lines 176-180)
closeDeleteModal ==
    /\ isDeleteModalOpen
    /\ isDeleteModalOpen' = FALSE
    /\ pendingTaskToDelete' = NoTask
    /\ confirmMessage' = <<>>
    /\ lastOp' = "closeDeleteModal"
    /\ userEvent
    /\ UNCHANGED <<store, filters, isContentLoading, isEditModalOpen,
                   isAddModalOpen, isLoading, currentTask, draft, loadTimer,
                   pendingAdds, issued, inputs, history>>

Next ==
    \/ onMountTimer
    \/ setSearchTerm
    \/ setFilterStatus
    \/ openAddModal
    \/ inputNewTaskTitle
    \/ inputNewTaskDescription
    \/ inputNewTaskStatus
    \/ addTask
    \/ addTaskResume
    \/ handleCancelAddTask
    \/ openEditModal
    \/ inputEditTitle
    \/ inputEditDescription
    \/ inputEditStatus
    \/ saveEditedTask
    \/ cancelEdit
    \/ openDeleteModal
    \/ deleteTask
    \/ closeDeleteModal

Spec == Init /\ [][Next]_vars

\* the two timers are setTimeout calls that nothing clears: a callback that is
\* due runs
SpecFair == Spec /\ WF_vars(onMountTimer) /\ WF_vars(addTaskResume)

----------------------------------------------------------------------------
(* The derivation on its own: collections that deletes and edit saves make *)
(* of the seed, under every search term and status filter.                 *)

\* what the store can hold in place of seed task i: nothing (deleted), the
\* seed task, or the seed task after an edit was saved
Variants(i) ==
    { <<>>,
      <<initialTasks[i]>>,
      <<[initialTasks[i] EXCEPT !.title = S(<<"S", "e">>)]>>,
      <<[initialTasks[i] EXCEPT !.description = S(<<"d", "E">>), !.status = "Pending"]>> }

Collections ==
    { a \o b \o c \o d : a \in Variants(1), b \in Variants(2),
                         c \in Variants(3), d \in Variants(4) }

InitFilter ==
    /\ tasks \in Collections
    /\ searchTerm = S(<<>>)
    /\ filterStatus = "All"
    /\ isContentLoading = FALSE
    /\ isEditModalOpen = FALSE
    /\ isDeleteModalOpen = FALSE
    /\ isAddModalOpen = FALSE
    /\ isLoading = FALSE
    /\ currentTask = NoTask
    /\ newTaskTitle = S(<<>>)
    /\ newTaskDescription = S(<<>>)
    /\ newTaskStatus = "Pending"
    /\ confirmMessage = <<>>
    /\ pendingTaskToDelete = NoTask
    /\ loadTimer = "fired"
    /\ pendingAdds = 0
    /\ issued = 0
    /\ events = 0
    /\ inputs = 0
    /\ lastOp = "init"
    /\ submitted = NoTask
    /\ cancelled = FALSE

NextFilter ==
    \/ setSearchTerm
    \/ setFilterStatus

SpecFilter == InitFilter /\ [][NextFilter]_vars

----------------------------------------------------------------------------
(* The confirmation dialog on its own: deleteTask as a function of the      *)
(* collection and of the captured task.  Under Spec the captured task is in *)
(* the store for as long as the dialog is open; here the handler also gets  *)
(* a captured task whose id no record has.                                  *)

\* the captured task: a seed task, or a task with an id from randomUUID
CapturedTasks ==
    {initialTasks[i] : i \in 1..Len(initialTasks)}
        \cup {[initialTasks[1] EXCEPT !.id = randomUUID(1)]}

InitDelete ==
    /\ tasks \in Collections
    /\ pendingTaskToDelete \in CapturedTasks
    /\ confirmMessage = confirmText(pendingTaskToDelete.title)
    /\ isDeleteModalOpen = TRUE
    /\ searchTerm = S(<<>>)
    /\ filterStatus = "All"
    /\ isContentLoading = FALSE
    /\ isEditModalOpen = FALSE
    /\ isAddModalOpen = FALSE
    /\ isLoading = FALSE
    /\ currentTask = NoTask
    /\ newTaskTitle = S(<<>>)
    /\ newTaskDescription = S(<<>>)
    /\ newTaskStatus = "Pending"
    /\ loadTimer = "fired"
    /\ pendingAdds = 0
    /\ issued = 0
    /\ events = 0
    /\ inputs = 0
    /\ lastOp = "openDeleteModal"
    /\ submitted = NoTask
    /\ cancelled = FALSE

NextDelete ==
    \/ deleteTask
    \/ closeDeleteModal

SpecDelete == InitDelete /\ [][NextDelete]_vars

----------------------------------------------------------------------------
(* Claims. *)

\* the claim's predicate on one task: its status is the filter (or the filter
\* is 'All') and, for a non-empty term, its title or its description contains
\* the term, case folded on both sides
Matches(task, term, status) ==
    /\ status = "All" \/ task.status = status
    /\ Length(term) > 0 =>
          \/ includes(toLowerCase(task.title), toLowerCase(term))
          \/ includes(toLowerCase(task.description), toLowerCase(term))

\* C1: the visible list is exactly the subsequence of the collection, in the
\* collection's order, of the tasks that match the status filter and the
\* search term: the k-th matching task of the collection is the k-th visible
\* task, and there are no other visible tasks.
C1_VisibleIsMatchingSubsequence ==
    LET matching == {i \in 1..Len(tasks) : Matches(tasks[i], searchTerm, filterStatus)}
        rank(i) == Cardinality({j \in matching : j <= i})
    IN  /\ Len(visibleTasks) = Cardinality(matching)
        /\ \A i \in matching : visibleTasks[rank(i)] = tasks[i]

\* both filters are set, the term matches only after case folding, and the
\* result keeps some tasks and drops others
C1_Witness ==
    /\ filterStatus # "All"
    /\ searchTerm = S(<<"s", "E">>)
    /\ Len(visibleTasks) >= 2
    /\ Len(visibleTasks) < Len(tasks)
    /\ lastOp \in {"setSearchTerm", "setFilterStatus"}

\* C2: when the add modal was cancelled while a submission was pending, the
\* completion of that submission leaves the task collection as it was.
C2_CancelledSubmitLeavesStore ==
    [][cancelled /\ addTaskResume => tasks' = tasks]_vars

\* C3: every task in the store has a non-empty title.
C3_TitlesNonEmpty ==
    \A i \in 1..Len(tasks) : Length(tasks[i].title) > 0

C5_IdsUnique ==
    \A i, j \in 1..Len(tasks) : tasks[i].id = tasks[j].id => i = j

\* a task built by addTask stands next to the seed tasks, one of them edited
C5_Witness ==
    /\ issued >= 1
    /\ Len(tasks) >= 2
    /\ \E i \in 1..Len(tasks) : tasks[i].id = UUIDS[1]
    /\ \E i \in 1..Len(tasks) : tasks[i].id = "1"

openModals ==
    (IF isAddModalOpen THEN 1 ELSE 0) + (IF isEditModalOpen THEN 1 ELSE 0)
        + (IF isDeleteModalOpen THEN 1 ELSE 0)

\* C6: at most one of the three modals is open, and a modal opens only when
\* none is open.
C6_OneModalAtATime ==
    /\ [](openModals <= 1)
    /\ [][openModals' > openModals => openModals = 0]_vars

\* C7: when an accepted add submission completes, the collection has one more
\* task, with the title, description and status of the draft as it was when
\* the submit was accepted, and an id no task had before.
C7_AddedTaskIsSubmittedDraft ==
    [][addTaskResume =>
          /\ Len(tasks') = Len(tasks) + 1
          /\ tasks'[Len(tasks')].title = submitted.title
          /\ tasks'[Len(tasks')].description = submitted.description
          /\ tasks'[Len(tasks')].status = submitted.status
          /\ \A i \in 1..Len(tasks) : tasks[i].id # tasks'[Len(tasks')].id]_vars

\* C8: a save that goes through for a task of the store puts the draft's
\* title, description and status in that task's place, with the id and
\* createdAt the task had; every other task stays where it was, unchanged.
C8_SaveReplacesInPlace ==
    [][/\ saveEditedTask
       /\ ~isEditModalOpen'
       /\ \E i \in 1..Len(tasks) : tasks[i].id = currentTask.id
       => /\ Len(tasks') = Len(tasks)
          /\ \A i \in 1..Len(tasks) :
                IF tasks[i].id = currentTask.id
                THEN /\ tasks'[i].title = currentTask.title
                     /\ tasks'[i].description = currentTask.description
                     /\ tasks'[i].status = currentTask.status
                     /\ tasks'[i].id = tasks[i].id
                     /\ tasks'[i].createdAt = tasks[i].createdAt
                ELSE tasks'[i] = tasks[i]]_vars

\* a save went through and changed the title of a seed task that is not the
\* first of the collection
C8_Witness ==
    /\ lastOp = "saveEditedTask"
    /\ ~isEditModalOpen
    /\ \E i \in 2..Len(tasks) :
          /\ tasks[i] = currentTask
          /\ tasks[i].title = S(<<"S", "e">>)
          /\ tasks[i].createdAt = initialTasks[i].createdAt

\* C9: after a confirmed delete of a task of the store no task has that id,
\* and the other tasks are all there, unchanged and in their order.
C9_DeleteRemovesExactlyTheTask ==
    [][/\ deleteTask
       /\ \E k \in 1..Len(tasks) : tasks[k].id = pendingTaskToDelete.id
       => /\ \A i \in 1..Len(tasks') : tasks'[i].id # pendingTaskToDelete.id
          /\ \E k \in 1..Len(tasks) :
                /\ tasks[k].id = pendingTaskToDelete.id
                /\ tasks' = SubSeq(tasks, 1, k - 1) \o SubSeq(tasks, k + 1, Len(tasks))]_vars

\* a task from the middle of the collection was deleted
C9_Witness ==
    /\ lastOp = "deleteTask"
    /\ Len(tasks) = Len(initialTasks) - 1
    /\ tasks[1] = initialTasks[1]
    /\ tasks[Len(tasks)] = initialTasks[Len(initialTasks)]

\* C10: a submit of the add form with a title that is empty or only white
\* space, or with a description longer than MAX_CHARACTERS, starts no timer
\* and changes neither the collection, the draft, the submit-loading flag nor
\* the modals.
C10_InvalidSubmitChangesNothing ==
    [][/\ addTask
       /\ \/ Length(trim(newTaskTitle)) = 0
          \/ Length(newTaskDescription) > MAX_CHARACTERS
       => UNCHANGED <<tasks, draft, isLoading, modals, pendingAdds>>]_vars

\* the form was submitted with a title of one blank, and nothing is pending
C10_Witness ==
    /\ lastOp = "addTask"
    /\ isAddModalOpen
    /\ newTaskTitle = S(<<" ">>)
    /\ ~isLoading
    /\ pendingAdds = 0

\* C11: the description bound is inclusive at MAX_CHARACTERS for the add form
\* and for the edit form. A submit of the add form with a description of
\* exactly 500 characters and a title that is not blank, while no earlier
\* submit is pending, is accepted (the submit-loading flag goes up and the
\* call waits at its await); a save of an edit draft with a description of
\* exactly 500 characters and a non-empty title replaces the record and closes
\* the modal. With 501 characters either submit leaves the collection, the
\* pending calls and the modal as they were.
C11_BoundInclusive ==
    /\ [][(addTask /\ ~isLoading /\ Length(trim(newTaskTitle)) > 0
                   /\ Length(newTaskDescription) = MAX_CHARACTERS)
            => (isLoading' /\ pendingAdds' = pendingAdds + 1
                /\ submitted'.description = newTaskDescription)]_vars
    /\ [][(addTask /\ Length(newTaskDescription) = MAX_CHARACTERS + 1)
            => (tasks' = tasks /\ pendingAdds' = pendingAdds
                /\ isLoading' = isLoading /\ isAddModalOpen')]_vars
    /\ [][(saveEditedTask /\ Length(currentTask.title) > 0
                          /\ Length(currentTask.description) = MAX_CHARACTERS)
            => (tasks' = replaceTask(tasks, currentTask) /\ ~isEditModalOpen')]_vars
    /\ [][(saveEditedTask /\ Length(currentTask.description) = MAX_CHARACTERS + 1)
            => (tasks' = tasks /\ isEditModalOpen')]_vars

\* an add submit with a description of exactly 500 characters has been accepted
C11_Witness ==
    /\ lastOp = "addTask"
    /\ isLoading /\ pendingAdds = 1
    /\ Length(submitted.description) = MAX_CHARACTERS
    /\ Length(trim(submitted.title)) > 0

\* C12: while the edit modal is open, a change of a field of the edit draft
\* leaves the task collection as it is, and so do opening the modal and its
\* Cancel, so that open, any edits, cancel ends with the collection it began
\* with; a record that stays in the collection gets another value only in a
\* step of saveEditedTask, and then it is the record with the draft's id.
C12_DraftEditsLeaveStore ==
    /\ [][(openEditModal \/ inputEditTitle \/ inputEditDescription
             \/ inputEditStatus \/ cancelEdit) => tasks' = tasks]_vars
    /\ [][\A i \in 1..Len(tasks) : \A j \in 1..Len(tasks') :
              (tasks[i].id = tasks'[j].id /\ tasks[i] # tasks'[j])
                  => (saveEditedTask /\ tasks[i].id = currentTask.id)]_vars

\* the edit modal was opened, its draft changed and the modal cancelled
C12_Witness ==
    /\ lastOp = "cancelEdit"
    /\ ~isEditModalOpen
    /\ currentTask # NoTask
    /\ tasks = initialTasks
    /\ \E i \in 1..Len(tasks) :
           tasks[i].id = currentTask.id /\ tasks[i] # currentTask

\* C13: a save of an edit draft whose id is the id of no task in the store
\* (the task was deleted while its edit modal was open) leaves the collection
\* as it is: no task is added, changed or removed, and the handler completes,
\* closing the edit modal.
C13_SaveOfAbsentIdIsNoOp ==
    [][(saveEditedTask /\ \A i \in 1..Len(tasks) : tasks[i].id # currentTask.id)
        => (tasks' = tasks
            /\ (saveAccepts(currentTask) /\ Length(currentTask.title) > 0
                    => ~isEditModalOpen'))]_vars

\* an edit draft was saved after its task had been deleted
C13_Witness ==
    /\ lastOp = "saveEditedTask"
    /\ ~isEditModalOpen
    /\ currentTask # NoTask
    /\ Len(tasks) = Len(initialTasks) - 1
    /\ \A i \in 1..Len(tasks) : tasks[i].id # currentTask.id

\* C14: a confirmed delete whose captured task has an id that no record of the
\* store has leaves the collection as it is, and the handler completes: the
\* delete modal is closed, the captured task and the message are cleared.
C14_DeleteOfAbsentIdIsNoOp ==
    [][(deleteTask /\ pendingTaskToDelete # NoTask
          /\ \A i \in 1..Len(tasks) : tasks[i].id # pendingTaskToDelete.id)
        => (tasks' = tasks /\ ~isDeleteModalOpen'
            /\ pendingTaskToDelete' = NoTask /\ confirmMessage' = <<>>)]_vars

\* a delete was confirmed and all four records are still there: the captured
\* task was not one of them
C14_Witness ==
    /\ lastOp = "deleteTask"
    /\ Len(tasks) = Len(initialTasks)
    /\ ~isDeleteModalOpen
    /\ pendingTaskToDelete = NoTask
    /\ confirmMessage = <<>>

\* C15: the store is initialised exactly once. The content-loading flag is
\* true exactly while the load timer is pending and never goes from false to
\* true; the timer's callback runs only in a state where the flag is true and
\* the collection is still empty, and it sets the collection to the seed
\* dataset as a whole and the flag to false, after which the timer is spent.
C15_InitialisedOnce ==
    /\ [](isContentLoading <=> loadTimer = "pending")
    /\ [](isContentLoading => tasks = <<>>)
    /\ [][isContentLoading' => isContentLoading]_vars
    /\ [][(onMountTimer \/ lastOp' = "onMountTimer")
            => (isContentLoading /\ tasks' = initialTasks
                /\ ~isContentLoading' /\ loadTimer' = "fired")]_vars
    /\ [][loadTimer = "fired" => loadTimer' = "fired"]_vars

\* the load timer has just fired
C15_Witness ==
    /\ lastOp = "onMountTimer"
    /\ loadTimer = "fired"
    /\ ~isContentLoading
    /\ tasks = initialTasks

\* C16: under fairness of the timers, every add submission that addTask
\* accepted completes: a state follows in which the continuation has run, the
\* new task is the last of the collection, no call is pending, the
\* submit-loading flag is false, the add modal is closed and the draft is blank.
C16_AcceptedAddCompletes ==
    (pendingAdds > 0) ~>
        (/\ lastOp = "addTaskResume"
         /\ pendingAdds = 0
         /\ ~isLoading
         /\ ~isAddModalOpen
         /\ newTaskTitle = S(<<>>)
         /\ newTaskDescription = S(<<>>)
         /\ newTaskStatus = "Pending"
         /\ Len(tasks) > 0
         /\ tasks[Len(tasks)].id = randomUUID(issued))

\* an accepted submission has completed
C16_Witness ==
    /\ lastOp = "addTaskResume"
    /\ issued = 1
    /\ pendingAdds = 0
    /\ ~isLoading
    /\ ~isAddModalOpen
    /\ tasks[Len(tasks)].id = randomUUID(1)

\* C18: the collection keeps insertion order. In every step, two tasks
\* (identified by id) that are in the collection before and after the step
\* are in the same relative order after it as before; the completion of an
\* add leaves the earlier tasks in place and puts the new task after them.
C18_InsertionOrderKept ==
    /\ [][\A i \in 1..Len(tasks) : \A j \in 1..Len(tasks) :
              \A k \in 1..Len(tasks') : \A l \in 1..Len(tasks') :
                  (i < j /\ tasks'[k].id = tasks[i].id /\ tasks'[l].id = tasks[j].id)
                      => k < l]_vars
    /\ [][addTaskResume
            => (/\ Len(tasks') = Len(tasks) + 1
                /\ SubSeq(tasks', 1, Len(tasks)) = tasks
                /\ tasks'[Len(tasks')].id = randomUUID(issued'))]_vars

\* a task was added to the seed dataset and stands after the four seed tasks
C18_Witness ==
    /\ lastOp = "addTaskResume"
    /\ Len(tasks) = Len(initialTasks) + 1
    /\ SubSeq(tasks, 1, Len(initialTasks)) = initialTasks
    /\ tasks[Len(tasks)].id = randomUUID(1)

\* C19: while an accepted add submission is pending the submit-loading flag is
\* true and a further submit of the add form is not accepted (it leaves the
\* pending calls and the flag as they are), so at most one call of addTask
\* waits at its await at any time, and the flag is true exactly while one does.
C19_OneSubmissionAtATime ==
    /\ [](pendingAdds <= 1)
    /\ [](isLoading <=> pendingAdds > 0)
    /\ [][(addTask /\ pendingAdds > 0)
            => (pendingAdds' = pendingAdds /\ isLoading' /\ submitted' = submitted
                /\ tasks' = tasks)]_vars

\* a valid draft was submitted while an earlier submission was pending, and
\* the submit was blocked
C19_Witness ==
    /\ lastOp = "addSubmitBlocked"
    /\ isAddModalOpen
    /\ pendingAdds = 1
    /\ isLoading
    /\ Length(trim(newTaskTitle)) > 0
    /\ Length(newTaskDescription) <= MAX_CHARACTERS

\* C20: whenever the add modal goes from closed to open the draft is blank
\* (title "", description "", status Pending), whatever came before; it is so
\* because the draft is blank in every state in which the add modal is closed.
C20_DraftBlankOnOpen ==
    /\ [][(~isAddModalOpen /\ isAddModalOpen')
            => (/\ newTaskTitle' = S(<<>>)
                /\ newTaskDescription' = S(<<>>)
                /\ newTaskStatus' = "Pending")]_vars
    /\ [](~isAddModalOpen
            => (/\ newTaskTitle = S(<<>>)
                /\ newTaskDescription = S(<<>>)
                /\ newTaskStatus = "Pending"))

\* the add modal has been opened again after a draft was typed, submitted and
\* added, and the draft is blank
C20_Witness ==
    /\ lastOp = "openAddModal"
    /\ isAddModalOpen
    /\ issued = 1
    /\ pendingAdds = 0
    /\ newTaskTitle = S(<<>>)
    /\ newTaskDescription = S(<<>>)
    /\ newTaskStatus = "Pending"

\* C21: a save in the edit modal while the description of the draft is longer
\* than MAX_CHARACTERS changes nothing: the collection is as it was, the edit
\* modal stays open and the draft is kept.
C21_OverlongSaveChangesNothing ==
    [][(saveEditedTask /\ Length(currentTask.description) > MAX_CHARACTERS)
        => (tasks' = tasks /\ isEditModalOpen' /\ currentTask' = currentTask)]_vars

\* the edit form was submitted with a description of 501 characters
C21_Witness ==
    /\ lastOp = "editSubmitBlocked"
    /\ isEditModalOpen
    /\ Length(currentTask.title) > 0
    /\ Length(currentTask.description) = MAX_CHARACTERS + 1
    /\ tasks = initialTasks

\* C22: cancelling the delete confirmation leaves the task collection as it
\* is, closes the delete modal and clears the captured task and the
\* confirmation message.
C22_CancelDeleteClearsAndKeeps ==
    [][closeDeleteModal
        => (/\ tasks' = tasks
            /\ ~isDeleteModalOpen'
            /\ pendingTaskToDelete' = NoTask
            /\ confirmMessage' = <<>>)]_vars

\* a delete was triggered and then cancelled
C22_Witness ==
    /\ lastOp = "closeDeleteModal"
    /\ ~isDeleteModalOpen
    /\ pendingTaskToDelete = NoTask
    /\ confirmMessage = <<>>
    /\ tasks = initialTasks

\* C23: a confirmed delete removes the task with the captured id and no other
\* task: every record with another id is kept, in its place, and none with the
\* captured id is left; afterwards the modal is closed and the captured task
\* and the message are cleared. Between a trigger and the confirmation nothing
\* but the delete handlers themselves changes the captured task.
C23_DeleteRemovesCapturedOnly ==
    /\ [][deleteTask
            => (LET kept == {i \in 1..Len(tasks) : tasks[i].id # pendingTaskToDelete.id}
                    rank(i) == Cardinality({j \in kept : j <= i})
                IN  /\ Len(tasks') = Cardinality(kept)
                    /\ \A i \in kept : tasks'[rank(i)] = tasks[i]
                    /\ Len(tasks') >= Len(tasks) - 1
                    /\ ~isDeleteModalOpen'
                    /\ pendingTaskToDelete' = NoTask
                    /\ confirmMessage' = <<>>)]_vars
    /\ [][(pendingTaskToDelete # NoTask /\ pendingTaskToDelete' # pendingTaskToDelete)
            => (openDeleteModal \/ deleteTask \/ closeDeleteModal)]_vars

\* a delete was confirmed for a task that the status filter no longer shows:
\* the filter, the only value picked so far, was set after the trigger
C23_Witness ==
    /\ lastOp = "deleteTask"
    /\ inputs = 1
    /\ filterStatus # "All"
    /\ Len(tasks) = Len(initialTasks) - 1
    /\ \E k \in 1..Len(initialTasks) :
           /\ initialTasks[k].status # filterStatus
           /\ \A i \in 1..Len(tasks) : tasks[i].id # initialTasks[k].id

\* C24: while the delete confirmation is open, the message names the title of
\* the captured task as it was when the delete was triggered, and the message
\* changes only in the step that cancels or confirms the delete.
C24_MessageFixedWhileOpen ==
    /\ [](isDeleteModalOpen
            => confirmMessage = confirmText(pendingTaskToDelete.title))
    /\ [][(isDeleteModalOpen /\ confirmMessage' # confirmMessage)
            => (closeDeleteModal \/ deleteTask)]_vars

\* C26: no store mutation happens before the initialisation. While the
\* content-loading flag is true the collection is empty, no modal is open, no
\* edit draft and no delete target exists and no add submission is pending or
\* loading; the step that replaces the collection by the seed dataset is taken
\* from such a state, before any user event, so it discards no change made by
\* the user and does not run while an add timer is pending.
C26_NothingBeforeInitialisation ==
    /\ [](isContentLoading
            => (/\ tasks = <<>>
                /\ openModals = 0
                /\ currentTask = NoTask
                /\ pendingTaskToDelete = NoTask
                /\ pendingAdds = 0
                /\ ~isLoading
                /\ events = 0))
    /\ [][(loadTimer = "pending" /\ loadTimer' = "fired")
            => (tasks = <<>> /\ pendingAdds = 0 /\ events = 0
                /\ tasks' = initialTasks)]_vars

\* the seed dataset has replaced the empty collection before any user event
C26_Witness ==
    /\ lastOp = "onMountTimer"
    /\ events = 0
    /\ openModals = 0
    /\ pendingAdds = 0
    /\ tasks = initialTasks

\* C27: in every reachable state the delete modal is open if and only if a
\* task is captured as pending deletion, and if and only if the confirmation
\* message is not empty.
C27_DeleteStateConsistent ==
    /\ isDeleteModalOpen <=> pendingTaskToDelete # NoTask
    /\ isDeleteModalOpen <=> confirmMessage # <<>>

\* a delete was triggered after an earlier one had been confirmed
C27_Witness ==
    /\ lastOp = "openDeleteModal"
    /\ isDeleteModalOpen
    /\ pendingTaskToDelete # NoTask
    /\ confirmMessage # <<>>
    /\ Len(tasks) = Len(initialTasks) - 1

\* C28: the two filter steps commute and have identities. The visible list,
\* which the code computes by status and then by search term, is also what the
\* search step followed by the status step gives; with the status filter
\* 'All' the status step changes nothing, with an empty search term the search
\* step changes nothing, and with both the visible list is the whole
\* collection (the empty list for an empty store).
C28_FilterStepsCommute ==
    /\ visibleTasks = filteredByStatus(filteredBySearch(tasks, searchTerm), filterStatus)
    /\ filterStatus = "All" => visibleTasks = filteredBySearch(tasks, searchTerm)
    /\ Length(searchTerm) = 0 => visibleTasks = filteredByStatus(tasks, filterStatus)
    /\ (filterStatus = "All" /\ Length(searchTerm) = 0) => visibleTasks = tasks
    /\ filteredTasks(tasks, S(<<>>), "All") = tasks
    /\ tasks = <<>> => visibleTasks = <<>>

\* both steps are at work: each of them alone keeps more tasks than the two
\* together, and some task passes both
C28_Witness ==
    /\ lastOp \in {"setSearchTerm", "setFilterStatus"}
    /\ filterStatus # "All"
    /\ Length(searchTerm) > 0
    /\ Len(visibleTasks) >= 1
    /\ Len(visibleTasks) < Len(filteredByStatus(tasks, filterStatus))
    /\ Len(visibleTasks) < Len(filteredBySearch(tasks, searchTerm))

====
